---- MODULE Spec2Model ----
(***************************************************************************)
(* Model of the disperse-collect API service: amount resolution, funds     *)
(* validation, batching and submission of the five endpoints               *)
(* (src/src/service.rs, src/src/dto.rs, src/src/routes.rs).                *)
(*                                                                         *)
(* One request is followed from the moment its handler is entered to the   *)
(* HTTP response.  The suspension points of the async handlers are the     *)
(* calls to the chain client; everything between two suspension points is  *)
(* synchronous and is one action.                                          *)
(***************************************************************************)
EXTENDS Integers, Sequences, FiniteSets, TLC

(***************************************************************************)
(* Bounds.  U256 is scaled down to Bits bits; map keys are the addresses   *)
(* 1..MaxAddr.                                                             *)
(***************************************************************************)
Bits == 3
MaxAddr == 2

RECURSIVE Pow2(_)
Pow2(n) == IF n = 0 THEN 1 ELSE 2 * Pow2(n - 1)

Modulus == Pow2(Bits)
MaxU == Modulus - 1
HalfU == Pow2(Bits - 1)
U256 == 0..MaxU

KeyAddrs == 1..MaxAddr
CallerAddr == MaxAddr + 1
SpenderAddr == MaxAddr + 2
TokenAddr == MaxAddr + 3
RecipientAddr == MaxAddr + 4

VARIABLES
    req,        \* the request being handled
    signerAddr, \* the one address the wallet holds a key for
    ethBal,     \* chain: native balance of the caller
    tokBal,     \* chain: token balanceOf, per owner
    tokAllow,   \* chain: token allowance granted to the contract, per owner
    pc,         \* the handler's position
    reads,      \* the fan-out: read id -> "pending" | "ok" | "dropped" | failure
    calls,      \* every call issued to the chain client, in order
    addresses,  \* batch under construction / passed to the contract call
    amounts,
    sum,        \* running sum of construct_disperse_recipients
    tx,         \* the transaction request, once built
    result,     \* Result<_, DcError> of the service function
    response    \* the HTTP response

vars == <<req, signerAddr, ethBal, tokBal, tokAllow, pc, reads, calls,
          addresses, amounts, sum, tx, result, response>>

(***************************************************************************)
(* dto.rs: FractionOrAmount and FractionalAmount                           *)
(***************************************************************************)
Amount(a) == [tag |-> "Amount", amount |-> a]
Fraction(f, u) == [tag |-> "Fraction", fraction |-> f, units |-> u]

None == <<>>
Some(v) == <<v>>

checked_mul(a, b) == IF a * b > MaxU THEN None ELSE Some(a * b)
\* variant: zero units taken as "no scaling"
checked_div_zero_as_one(a, b) == IF b = 0 THEN Some(a) ELSE Some(a \div b)

checked_div(a, b) == IF b = 0 THEN None ELSE Some(a \div b)

\* variant: divides before it multiplies
to_absolute_div_first(f, total) ==
    LET q == checked_div(total, f.units)
    IN  IF q = None THEN None ELSE checked_mul(q[1], f.fraction)

\* total.checked_mul(self.fraction)?.checked_div(self.units)
to_absolute(f, total) ==
    LET m == checked_mul(total, f.fraction)
    IN  IF m = None THEN None ELSE checked_div(m[1], f.units)

(***************************************************************************)
(* service.rs: DcError                                                     *)
(***************************************************************************)
InsufficientFunds(required, available, address) ==
    [tag |-> "InsufficientFunds", required |-> required,
     available |-> available, address |-> address]
InvalidFractionalAmount(f) ==
    [tag |-> "InvalidFractionalAmount", fraction |-> f.fraction, units |-> f.units]
TokenNotFound(a) == [tag |-> "TokenNotFound", address |-> a]
Transport(cause) == [tag |-> "Transport", cause |-> cause]
Unexpected(cause) == [tag |-> "Unexpected", cause |-> cause]
SignerNotFound(a) == [tag |-> "SignerNotFound", address |-> a]

Ok(v) == [ok |-> TRUE, val |-> v]
Err(e) == [ok |-> FALSE, err |-> e]

\* Failures of an ERC20 read (alloy::contract::Error) and of a provider call
\* (RpcError<TransportErrorKind>).
RpcErrors == {"Transport", "ErrorResp"}
ContractErrors == {"UnknownFunction", "UnknownSelector", "AbiError"}
                    \cup {"TransportError." \o e : e \in {"Transport", "ErrorResp"}}

from_rpc_err(e) ==
    IF e = "Transport" THEN Transport(e) ELSE Unexpected(e)

from_erc20_err(e, token_address) ==
    CASE e \in {"UnknownFunction", "UnknownSelector"} -> TokenNotFound(token_address)
      [] e = "TransportError.Transport" -> from_rpc_err("Transport")
      [] e = "TransportError.ErrorResp" -> from_rpc_err("ErrorResp")
      [] OTHER -> Unexpected(e)

(***************************************************************************)
(* service.rs: normalize_amount                                            *)
(***************************************************************************)
\* variant: rejects a zero result for both variants
normalize_amount_reject_zero(amount, available_balance) ==
    LET a == IF amount.tag = "Amount" THEN Some(amount.amount)
             ELSE to_absolute(amount, available_balance)
    IN  IF a # None /\ a[1] # 0
        THEN Ok(a[1])
        ELSE Err([tag |-> "InvalidFractionalAmount", fraction |-> 0, units |-> 0])

normalize_amount(amount, available_balance) ==
    IF amount.tag = "Amount"
    THEN Ok(amount.amount)
    ELSE LET a == to_absolute(amount, available_balance)
         IN  IF a # None /\ a[1] # 0
             THEN Ok(a[1])
             ELSE Err(InvalidFractionalAmount(amount))

\* U256 `+` and `+=` and Iterator::sum are ruint's wrapping addition.
wrapping_add(a, b) == (a + b) % Modulus

RECURSIVE iter_sum(_)
iter_sum(s) ==
    IF s = <<>> THEN 0 ELSE wrapping_add(iter_sum(SubSeq(s, 1, Len(s) - 1)), s[Len(s)])

(***************************************************************************)
(* BTreeMap<Address, _>: iteration is ascending by key.                    *)
(***************************************************************************)
\* variant: an unordered map that happens to iterate from the largest key
RECURSIVE keys_desc(_)
keys_desc(S) ==
    IF S = {} THEN <<>>
    ELSE LET m == CHOOSE x \in S : \A y \in S : x >= y
         IN  <<m>> \o keys_desc(S \ {m})

RECURSIVE keys(_)
keys(S) ==
    IF S = {} THEN <<>>
    ELSE LET m == CHOOSE x \in S : \A y \in S : x <= y
         IN  <<m>> \o keys(S \ {m})

into_iter(map) ==
    LET ks == keys(DOMAIN map)
    IN  [i \in 1..Len(ks) |-> <<ks[i], map[ks[i]]>>]

\* variant: the ceiling is the first operand alone
Min_first(a, b) == a

Min(a, b) == IF a <= b THEN a ELSE b

\* BTreeMap::from_iter(addresses.into_iter().zip(amounts))
from_iter_zip(as, ms) ==
    LET n == Min(Len(as), Len(ms))
    IN  [a \in {as[i] : i \in 1..n} |->
            ms[CHOOSE i \in 1..n : as[i] = a /\ \A j \in 1..n : as[j] = a => j <= i]]

(***************************************************************************)
(* service.rs: construct_disperse_recipients.  The record returned holds   *)
(* the function's locals at its exit; err is None on the Ok path.          *)
(***************************************************************************)
RECURSIVE disperse_loop(_, _, _)
disperse_loop(recipients, total_balance, st) ==
    IF recipients = <<>> THEN st
    ELSE LET address == Head(recipients)[1]
             amount == Head(recipients)[2]
             actual_amount == normalize_amount(amount, total_balance)
         IN  IF ~actual_amount.ok
             THEN [st EXCEPT !.err = Some(actual_amount.err)]
             ELSE disperse_loop(Tail(recipients), total_balance,
                    [st EXCEPT !.sum = wrapping_add(st.sum, actual_amount.val),
                               !.addresses = Append(st.addresses, address),
                               !.amounts = Append(st.amounts, actual_amount.val)])

construct_disperse_recipients(sender, total_balance, recipients) ==
    LET st == disperse_loop(recipients, total_balance,
                 [addresses |-> <<>>, amounts |-> <<>>, sum |-> 0, err |-> None])
    IN  IF st.err # None THEN st
        ELSE IF st.sum > total_balance
             THEN [st EXCEPT !.err =
                      Some(InsufficientFunds(st.sum, total_balance, sender))]
             ELSE st

(***************************************************************************)
(* service.rs: the validation loop of collect_erc20.  balances[i] is the   *)
(* (allowance, balance) pair zipped with the i-th entry of the spenders.   *)
(***************************************************************************)
RECURSIVE collect_loop(_, _, _)
collect_loop(balances, spenders, st) ==
    IF balances = <<>> \/ spenders = <<>> THEN st
    ELSE LET allowance == Head(balances)[1]
             balance == Head(balances)[2]
             address == Head(spenders)[1]
             amount == Head(spenders)[2]
             actual_amount == normalize_amount(amount, balance)
             available == Min(allowance, balance)
         IN  IF ~actual_amount.ok
             THEN [st EXCEPT !.err = Some(actual_amount.err)]
             ELSE IF actual_amount.val > available
             THEN [st EXCEPT !.err =
                      Some(InsufficientFunds(actual_amount.val, available, address))]
             ELSE collect_loop(Tail(balances), Tail(spenders),
                    [st EXCEPT !.addresses = Append(st.addresses, address),
                               !.amounts = Append(st.amounts, actual_amount.val)])

(***************************************************************************)
(* dto.rs: the request types                                               *)
(***************************************************************************)
DisperseEthRequest(recipients) ==
    [op |-> "disperse_eth", recipients |-> recipients, caller |-> CallerAddr]
DisperseErc20Request(recipients) ==
    [op |-> "disperse_erc20", recipients |-> recipients, token |-> TokenAddr,
     spender |-> SpenderAddr, caller |-> CallerAddr]
CollectErc20Request(spenders) ==
    [op |-> "collect_erc20", caller |-> CallerAddr, recipient |-> RecipientAddr,
     token |-> TokenAddr, spenders |-> spenders]
TransferRequest(value, token) ==
    [op |-> "transfer", recipient |-> RecipientAddr, value |-> value,
     token |-> token, caller |-> CallerAddr]
ApproveRequest(amount) ==
    [op |-> "approve", spender |-> SpenderAddr, amount |-> amount,
     token |-> TokenAddr, caller |-> CallerAddr]

\* transfer dispatches on request.token
Op(r) ==
    IF r.op = "transfer"
    THEN (IF r.token = None THEN "transfer_eth" ELSE "transfer_erc20")
    ELSE r.op

(***************************************************************************)
(* The calls to the chain client.                                          *)
(***************************************************************************)
get_balance(a) == [call |-> "get_balance", owner |-> a]
allowance(a) == [call |-> "allowance", owner |-> a]
balanceOf(a) == [call |-> "balanceOf", owner |-> a]
create_access_list == [call |-> "create_access_list", owner |-> 0]
send_transaction == [call |-> "send_transaction", owner |-> 0]
get_receipt == [call |-> "get_receipt", owner |-> 0]

RECURSIVE collect_reads(_)
collect_reads(owners) ==
    IF owners = <<>> THEN <<>>
    ELSE <<allowance(Head(owners)), balanceOf(Head(owners))>>
            \o collect_reads(Tail(owners))

\* The reads a handler fans out to, in the order it issues them.
ReadsOf(r) ==
    CASE Op(r) = "disperse_eth" -> <<get_balance(r.caller)>>
      [] Op(r) = "disperse_erc20" -> <<allowance(r.spender), balanceOf(r.spender)>>
      [] Op(r) = "collect_erc20" -> collect_reads(keys(DOMAIN r.spenders))
      [] Op(r) = "transfer_eth" -> <<get_balance(r.caller)>>
      [] Op(r) = "transfer_erc20" -> <<balanceOf(r.caller)>>
      [] Op(r) = "approve" -> <<balanceOf(r.caller)>>

Range(s) == {s[i] : i \in 1..Len(s)}

\* What a read returns when it succeeds.
ReadValue(rd) ==
    CASE rd.call = "get_balance" -> ethBal
      [] rd.call = "balanceOf" -> tokBal[rd.owner]
      [] rd.call = "allowance" -> tokAllow[rd.owner]

\* provider.get_balance fails with an RpcError, token reads with a contract::Error
ReadErrors(rd) == IF rd.call = "get_balance" THEN RpcErrors ELSE ContractErrors

classify_read_err(rd, e) ==
    IF rd.call = "get_balance" THEN from_rpc_err(e) ELSE from_erc20_err(e, TokenAddr)

(***************************************************************************)
(* routes.rs: DcError -> ApiError -> HTTP response                         *)
(***************************************************************************)
\* the #[error(...)] Display of DcError
to_string(e) ==
    CASE e.tag = "InsufficientFunds" ->
            "insufficient funds for address " \o ToString(e.address)
                \o ", required: " \o ToString(e.required)
                \o ", available: " \o ToString(e.available)
                \o ", check balance or allowance"
      [] e.tag = "InvalidFractionalAmount" ->
            "fraction " \o ToString(e.fraction) \o "/" \o ToString(e.units)
                \o " results in invalid or zero amount for corresponding balance"
      [] e.tag = "TokenNotFound" ->
            "erc20 not found at address: " \o ToString(e.address)
      [] e.tag = "Transport" -> "error communicating with node: " \o e.cause
      [] e.tag = "Unexpected" -> "unexpected error: " \o e.cause
      [] e.tag = "SignerNotFound" -> "no signer found for " \o ToString(e.address)

InvalidRequest(msg) == [tag |-> "InvalidRequest", msg |-> msg]
Internal(source) == [tag |-> "Internal", msg |-> to_string(source)]

\* impl From<DcError> for ApiError
ApiError_from(value) ==
    IF value.tag \in {"InsufficientFunds", "InvalidFractionalAmount", "TokenNotFound"}
    THEN InvalidRequest(to_string(value))
    ELSE Internal(value)

\* impl IntoResponse for ApiError
into_response(e) ==
    IF e.tag = "InvalidRequest"
    THEN [status |-> 400, error |-> e.msg]
    ELSE [status |-> 500, error |-> "internal server error"]

\* the handle_* functions: .map(Json).map_err(Into::into)
handle(res) ==
    IF res.ok
    THEN [status |-> 200, error |-> ""]
    ELSE into_response(ApiError_from(res.err))

(***************************************************************************)
(* Inputs: the requests and the chain snapshots the handlers are run on.   *)
(***************************************************************************)
Maps(E) == UNION {[D -> E] : D \in SUBSET KeyAddrs}

AllAmounts == {Amount(a) : a \in U256}
AllFractions == {Fraction(f, u) : f \in U256, u \in U256}

DisperseEntries ==
    {Amount(0), Amount(1), Amount(HalfU), Amount(MaxU),
     Fraction(1, 2), Fraction(2, 3), Fraction(1, 0)}
CollectEntries ==
    {Amount(0), Amount(1), Amount(3), Fraction(2, 2), Fraction(1, 0)}
SingleEntries ==
    {Amount(0), Amount(1), Amount(MaxU), Fraction(1, 2), Fraction(1, 0)}

EthBalances == {0, 1, 3, MaxU}
\* <<balanceOf, allowance>> of one owner
DispersePairs == {<<3, 1>>, <<1, 3>>, <<3, 3>>, <<0, 3>>, <<MaxU, MaxU>>}
CollectPairs == {<<3, 1>>, <<2, 3>>}
SingleBalances == {0, 1, 3}

Owners == KeyAddrs \cup {CallerAddr, SpenderAddr}
Zero == [a \in Owners |-> 0]
OnKeys(f, D) == [a \in Owners |-> IF a \in D THEN f[a] ELSE 0]

InitDisperseEth ==
    /\ req \in {DisperseEthRequest(m) : m \in Maps(DisperseEntries)}
    /\ ethBal \in EthBalances
    /\ tokBal = Zero /\ tokAllow = Zero

InitDisperseErc20 ==
    /\ req \in {DisperseErc20Request(m) : m \in Maps(DisperseEntries)}
    /\ ethBal = 0
    /\ \E p \in DispersePairs :
          /\ tokBal = [Zero EXCEPT ![SpenderAddr] = p[1]]
          /\ tokAllow = [Zero EXCEPT ![SpenderAddr] = p[2]]

InitCollectErc20 ==
    /\ req \in {CollectErc20Request(m) : m \in Maps(CollectEntries)}
    /\ ethBal = 0
    /\ \E f \in [KeyAddrs -> CollectPairs] :
          /\ tokBal = OnKeys([a \in KeyAddrs |-> f[a][1]], DOMAIN req.spenders)
          /\ tokAllow = OnKeys([a \in KeyAddrs |-> f[a][2]], DOMAIN req.spenders)

InitTransferEth ==
    /\ req \in {TransferRequest(v, None) : v \in AllAmounts \cup AllFractions}
    /\ ethBal \in U256
    /\ tokBal = Zero /\ tokAllow = Zero

InitTransferErc20 ==
    /\ req \in {TransferRequest(v, Some(TokenAddr)) : v \in SingleEntries}
    /\ ethBal = 0
    /\ \E b \in SingleBalances : tokBal = [Zero EXCEPT ![CallerAddr] = b]
    /\ tokAllow = Zero

InitApprove ==
    /\ req \in {ApproveRequest(v) : v \in SingleEntries}
    /\ ethBal = 0
    /\ \E b \in SingleBalances : tokBal = [Zero EXCEPT ![CallerAddr] = b]
    /\ tokAllow = Zero

NoTx == [call |-> "none"]

Init ==
    /\ \/ InitDisperseEth
       \/ InitDisperseErc20
       \/ InitCollectErc20
       \/ InitTransferEth
       \/ InitTransferErc20
       \/ InitApprove
    /\ signerAddr \in {CallerAddr, SpenderAddr}
    /\ pc = "start"
    /\ reads = <<>>
    /\ calls = <<>>
    /\ addresses = <<>>
    /\ amounts = <<>>
    /\ sum = 0
    /\ tx = NoTx
    /\ result = None
    /\ response = None

(***************************************************************************)
(* The handlers.                                                           *)
(***************************************************************************)
Finish(res) ==
    /\ result' = Some(res)
    /\ response' = Some(handle(res))
    /\ pc' = "done"

chain == <<signerAddr, ethBal, tokBal, tokAllow>>

\* Entering the service function: every read of the fan-out is issued.
Start ==
    /\ pc = "start"
    /\ reads' = [rd \in Range(ReadsOf(req)) |-> "pending"]
    /\ calls' = ReadsOf(req)
    /\ pc' = "fetch"
    /\ UNCHANGED <<req, chain, addresses, amounts, sum, tx, result, response>>

ReadOk(rd) ==
    /\ pc = "fetch"
    /\ reads[rd] = "pending"
    /\ reads' = [reads EXCEPT ![rd] = "ok"]
    /\ UNCHANGED <<req, chain, pc, calls, addresses, amounts, sum, tx, result, response>>

\* try_join! / try_join_all / `?`: the first failure ends the fan-out, the other
\* reads and their results are dropped.
ReadFail(rd, e) ==
    /\ pc = "fetch"
    /\ reads[rd] = "pending"
    /\ reads' = [r \in DOMAIN reads |-> IF r = rd THEN e ELSE "dropped"]
    /\ Finish(Err(classify_read_err(rd, e)))
    /\ UNCHANGED <<req, chain, calls, addresses, amounts, sum, tx>>

\* variant: the handler goes on as soon as one read is back
Fetched_any == pc = "fetch" /\ \E rd \in DOMAIN reads : reads[rd] = "ok"

Fetched == pc = "fetch" /\ \A rd \in DOMAIN reads : reads[rd] = "ok"

disperseEth(as, ms) ==
    [call |-> "disperseEth", addresses |-> as, amounts |-> ms,
     value |-> iter_sum(ms), from |-> None, access_list |-> FALSE]

disperseERC20(as, ms) ==
    [call |-> "disperseERC20", spender |-> req.spender, token |-> req.token,
     addresses |-> as, amounts |-> ms, value |-> 0, from |-> None,
     access_list |-> FALSE]

collectERC20(as, ms) ==
    [call |-> "collectERC20", token |-> req.token, recipient |-> req.recipient,
     addresses |-> as, amounts |-> ms, value |-> 0, from |-> None,
     access_list |-> FALSE]

\* The synchronous part of a disperse handler after its reads.
Disperse(sender, available_balance) ==
    LET st == construct_disperse_recipients(sender, available_balance,
                                            into_iter(req.recipients))
    IN  /\ addresses' = st.addresses
        /\ amounts' = st.amounts
        /\ sum' = st.sum
        /\ IF st.err # None
           THEN Finish(Err(st.err[1])) /\ tx' = tx
           ELSE /\ tx' = IF Op(req) = "disperse_eth"
                        THEN disperseEth(st.addresses, st.amounts)
                        ELSE disperseERC20(st.addresses, st.amounts)
                /\ pc' = "built"
                /\ UNCHANGED <<result, response>>
        /\ UNCHANGED <<req, chain, reads, calls>>

ResolveDisperseEth ==
    /\ Fetched
    /\ Op(req) = "disperse_eth"
    /\ LET available_balance == ReadValue(get_balance(req.caller))
       IN  Disperse(req.caller, available_balance)

ResolveDisperseErc20 ==
    /\ Fetched
    /\ Op(req) = "disperse_erc20"
    /\ LET joined == <<ReadValue(allowance(req.spender)),
                       ReadValue(balanceOf(req.spender))>>
           \* let (balance, allowance) = try_join!(allowance, balanceOf)
           balance == joined[1]
           allowance_ == joined[2]
           available_balance == Min(balance, allowance_)
       IN  Disperse(req.spender, available_balance)

\* try_join_all keeps the order of request.spenders.keys()
collect_balances(owners) ==
    [i \in 1..Len(owners) |->
        <<ReadValue(allowance(owners[i])), ReadValue(balanceOf(owners[i]))>>]

ResolveCollectErc20 ==
    /\ Fetched
    /\ Op(req) = "collect_erc20"
    /\ LET balances == collect_balances(keys(DOMAIN req.spenders))
           st == collect_loop(balances, into_iter(req.spenders),
                    [addresses |-> <<>>, amounts |-> <<>>, sum |-> 0, err |-> None])
       IN  /\ addresses' = st.addresses
           /\ amounts' = st.amounts
           /\ IF st.err # None
              THEN Finish(Err(st.err[1])) /\ tx' = tx
              ELSE /\ tx' = collectERC20(st.addresses, st.amounts)
                   /\ pc' = "built"
                   /\ UNCHANGED <<result, response>>
    /\ UNCHANGED <<req, chain, reads, calls, sum>>

eth_transfer(v) ==
    [call |-> "", to |-> req.recipient, value |-> v, from |-> None,
     access_list |-> FALSE]

erc20_transfer(v) ==
    [call |-> "transfer", token |-> req.token[1], to |-> req.recipient,
     amount |-> v, value |-> 0, from |-> None, access_list |-> FALSE]

erc20_approve(v) ==
    [call |-> "approve", token |-> req.token, spender |-> req.spender,
     amount |-> v, value |-> 0, from |-> None, access_list |-> FALSE]

\* transfer_eth and transfer_erc20: one amount, checked against the balance
Transfer(amount, balance) ==
    LET actual_amount == normalize_amount(amount, balance)
    IN  /\ IF ~actual_amount.ok
           THEN Finish(Err(actual_amount.err)) /\ UNCHANGED <<tx, amounts>>
           ELSE IF actual_amount.val > balance
           THEN /\ Finish(Err(InsufficientFunds(actual_amount.val, balance, req.caller)))
                /\ amounts' = <<actual_amount.val>>
                /\ tx' = tx
           ELSE /\ tx' = IF Op(req) = "transfer_eth"
                        THEN eth_transfer(actual_amount.val)
                        ELSE erc20_transfer(actual_amount.val)
                /\ amounts' = <<actual_amount.val>>
                /\ pc' = "built"
                /\ UNCHANGED <<result, response>>
        /\ UNCHANGED <<req, chain, reads, calls, addresses, sum>>

ResolveTransferEth ==
    /\ Fetched
    /\ Op(req) = "transfer_eth"
    /\ Transfer(req.value, ReadValue(get_balance(req.caller)))

ResolveTransferErc20 ==
    /\ Fetched
    /\ Op(req) = "transfer_erc20"
    /\ Transfer(req.value, ReadValue(balanceOf(req.caller)))

ResolveApprove ==
    /\ Fetched
    /\ Op(req) = "approve"
    /\ LET balance == ReadValue(balanceOf(req.caller))
           actual_amount == normalize_amount(req.amount, balance)
       IN  IF ~actual_amount.ok
           THEN Finish(Err(actual_amount.err)) /\ UNCHANGED <<tx, amounts>>
           ELSE /\ tx' = erc20_approve(actual_amount.val)
                /\ amounts' = <<actual_amount.val>>
                /\ pc' = "built"
                /\ UNCHANGED <<result, response>>
    /\ UNCHANGED <<req, chain, reads, calls, addresses, sum>>

(***************************************************************************)
(* service.rs: send_transaction, called with signer = request.caller       *)
(***************************************************************************)
\* variant: the check is left out
has_signer_unchecked(a) == TRUE

has_signer_for(a) == a = signerAddr

CheckSigner ==
    /\ pc = "built"
    /\ IF ~has_signer_for(req.caller)
       THEN Finish(Err(SignerNotFound(req.caller))) /\ UNCHANGED <<tx, calls>>
       ELSE /\ tx' = [tx EXCEPT !.from = Some(req.caller)]
            /\ calls' = Append(calls, create_access_list)
            /\ pc' = "simulate"
            /\ UNCHANGED <<result, response>>
    /\ UNCHANGED <<req, chain, reads, addresses, amounts, sum>>

AccessListOk ==
    /\ pc = "simulate"
    /\ tx' = [tx EXCEPT !.access_list = TRUE]
    /\ calls' = Append(calls, send_transaction)
    /\ pc' = "send"
    /\ UNCHANGED <<req, chain, reads, addresses, amounts, sum, result, response>>

SendOk ==
    /\ pc = "send"
    /\ calls' = Append(calls, get_receipt)
    /\ pc' = "receipt"
    /\ UNCHANGED <<req, chain, reads, addresses, amounts, sum, tx, result, response>>

\* variant: a failed send is issued a second time before giving up
SubmitFail_retry_once(e) ==
    /\ pc \in {"simulate", "send", "receipt"}
    /\ IF pc = "send" /\ Cardinality({i \in 1..Len(calls) : calls[i] = send_transaction}) < 2
       THEN /\ calls' = Append(calls, send_transaction)
            /\ UNCHANGED <<pc, result, response>>
       ELSE Finish(Err(from_rpc_err(e))) /\ calls' = calls
    /\ UNCHANGED <<req, chain, reads, addresses, amounts, sum, tx>>

\* create_access_list, send_transaction or get_receipt fails: `?`
SubmitFail(e) ==
    /\ pc \in {"simulate", "send", "receipt"}
    /\ Finish(Err(from_rpc_err(e)))
    /\ UNCHANGED <<req, chain, reads, calls, addresses, amounts, sum, tx>>

IsBatch == Op(req) \in {"disperse_eth", "disperse_erc20", "collect_erc20"}

ReceiptOk ==
    /\ pc = "receipt"
    /\ Finish(Ok(IF IsBatch
                 THEN [tx_hash |-> "receipt.transaction_hash",
                       transfers |-> from_iter_zip(addresses, amounts)]
                 ELSE [tx_hash |-> "receipt.transaction_hash"]))
    /\ UNCHANGED <<req, chain, reads, calls, addresses, amounts, sum, tx>>

Next ==
    \/ Start
    \/ \E rd \in DOMAIN reads : ReadOk(rd)
    \/ \E rd \in DOMAIN reads : \E e \in ReadErrors(rd) : ReadFail(rd, e)
    \/ ResolveDisperseEth
    \/ ResolveDisperseErc20
    \/ ResolveCollectErc20
    \/ ResolveTransferEth
    \/ ResolveTransferErc20
    \/ ResolveApprove
    \/ CheckSigner
    \/ AccessListOk
    \/ SendOk
    \/ \E e \in RpcErrors : SubmitFail(e)
    \/ ReceiptOk

Spec == Init /\ [][Next]_vars

(***************************************************************************)
(* Vocabulary of the properties: exact (unbounded) arithmetic, stated      *)
(* without the operators of the handlers.                                  *)
(***************************************************************************)
Floor(n, d) == CHOOSE q \in 0..n : q * d <= n /\ n < (q + 1) * d

\* A Fraction resolves when units > 0, the product fits and the floor is not 0.
FractionResolves(f, total) ==
    /\ f.units > 0
    /\ f.fraction * total <= MaxU
    /\ Floor(f.fraction * total, f.units) > 0

ExactAmount(foa, total) ==
    IF foa.tag = "Amount" THEN foa.amount
    ELSE Floor(foa.fraction * total, foa.units)

EntryResolves(foa, total) == foa.tag = "Amount" \/ FractionResolves(foa, total)

RECURSIVE ExactSum(_)
ExactSum(s) == IF s = <<>> THEN 0 ELSE s[1] + ExactSum(Tail(s))

IsDisperse == Op(req) \in {"disperse_eth", "disperse_erc20"}
IsCollect == Op(req) = "collect_erc20"
IsSingle == Op(req) \in {"transfer_eth", "transfer_erc20", "approve"}

\* The sender of a disperse and what it has available in the snapshot.
Sender == IF Op(req) = "disperse_eth" THEN req.caller ELSE req.spender
Available ==
    IF Op(req) = "disperse_eth" THEN ethBal
    ELSE IF tokBal[req.spender] <= tokAllow[req.spender]
         THEN tokBal[req.spender] ELSE tokAllow[req.spender]
AvailableOf(k) ==
    IF tokBal[k] <= tokAllow[k] THEN tokBal[k] ELSE tokAllow[k]

\* The one amount of a transfer or an approve and its reference balance.
SingleAmount == IF Op(req) = "approve" THEN req.amount ELSE req.value
SingleReference == IF Op(req) = "transfer_eth" THEN ethBal ELSE tokBal[req.caller]

\* Every read succeeded and the synchronous resolution step has run.
Resolved ==
    /\ pc \notin {"start", "fetch"}
    /\ \A rd \in DOMAIN reads : reads[rd] = "ok"

SubmitCalls == {create_access_list, send_transaction, get_receipt}
NothingSubmitted ==
    /\ \A i \in 1..Len(calls) : calls[i] \notin SubmitCalls
    /\ tx = NoTx

Failed(e) == pc = "done" /\ result = Some(Err(e))
FailedWith(tag) == pc = "done" /\ result # None /\ ~result[1].ok /\ result[1].err.tag = tag

\* The amounts of a disperse request in ascending address order, resolved exactly.
ExactAmounts(m, total) ==
    LET ks == keys(DOMAIN m)
    IN  [i \in 1..Len(ks) |-> ExactAmount(m[ks[i]], total)]

(***************************************************************************)
(* C1.  Aggregate validation of disperse-eth and disperse-erc20: when      *)
(* every entry resolves and the exact sum of the resolved amounts exceeds  *)
(* what the sender has available, the request fails with                   *)
(* InsufficientFunds{required = sum, available, address = sender} and      *)
(* nothing is simulated or sent.                                           *)
(***************************************************************************)
C1_Case ==
    /\ IsDisperse
    /\ Resolved
    /\ \A k \in DOMAIN req.recipients : EntryResolves(req.recipients[k], Available)
    /\ ExactSum(ExactAmounts(req.recipients, Available)) > Available

C1_AggregateValidation ==
    C1_Case =>
        /\ Failed(InsufficientFunds(ExactSum(ExactAmounts(req.recipients, Available)),
                                    Available, Sender))
        /\ NothingSubmitted

(***************************************************************************)
(* C2.  Per-entry validation of collect-erc20: the spenders are taken in   *)
(* ascending address order, each against its own balance and allowance;    *)
(* when the first entry that does not pass is one whose amount (fractions  *)
(* resolved against that spender's balance) exceeds min(balance,           *)
(* allowance) of that spender, the request fails with                      *)
(* InsufficientFunds{required = that amount, available = that min,         *)
(* address = that spender} and nothing is submitted.                       *)
(***************************************************************************)
EntryPasses(k) ==
    /\ EntryResolves(req.spenders[k], tokBal[k])
    /\ ExactAmount(req.spenders[k], tokBal[k]) <= AvailableOf(k)

EntryExceeds(k) ==
    /\ EntryResolves(req.spenders[k], tokBal[k])
    /\ ExactAmount(req.spenders[k], tokBal[k]) > AvailableOf(k)

FirstNotPassing(k) ==
    /\ k \in DOMAIN req.spenders
    /\ ~EntryPasses(k)
    /\ \A j \in DOMAIN req.spenders : j < k => EntryPasses(j)

C2_PerEntryValidation ==
    (IsCollect /\ Resolved) =>
        \A k \in DOMAIN req.spenders :
            (FirstNotPassing(k) /\ EntryExceeds(k)) =>
                /\ Failed(InsufficientFunds(ExactAmount(req.spenders[k], tokBal[k]),
                                            AvailableOf(k), k))
                /\ NothingSubmitted

\* a later spender fails the request although an earlier one was valid
C2_Witness ==
    /\ IsCollect /\ Resolved
    /\ \E j, k \in DOMAIN req.spenders :
          /\ j < k /\ EntryPasses(j) /\ FirstNotPassing(k) /\ EntryExceeds(k)
          /\ req.spenders[k].tag = "Fraction"
          /\ tokAllow[k] < tokBal[k]
          /\ Failed(InsufficientFunds(tokBal[k], tokAllow[k], k))

(***************************************************************************)
(* C3.  Fraction resolution: with units > 0 and fraction * total           *)
(* representable, Fraction{fraction, units} resolves against total to      *)
(* exactly floor(fraction * total / units), and fails with                 *)
(* InvalidFractionalAmount exactly when that floor is zero.                *)
(***************************************************************************)
C3_Case ==
    /\ IsSingle /\ Resolved
    /\ SingleAmount.tag = "Fraction"
    /\ SingleAmount.units > 0
    /\ SingleAmount.fraction * SingleReference <= MaxU

C3_FractionResolution ==
    C3_Case =>
        LET n == SingleAmount.fraction * SingleReference
            d == SingleAmount.units
        IN  IF n < d
            THEN Failed(InvalidFractionalAmount(SingleAmount))
                    /\ amounts = <<>> /\ NothingSubmitted
            ELSE /\ ~FailedWith("InvalidFractionalAmount")
                 /\ Len(amounts) = 1
                 /\ amounts[1] * d <= n /\ n < (amounts[1] + 1) * d

\* a resolution that truncates
C3_Witness ==
    /\ C3_Case
    /\ Op(req) = "transfer_eth"
    /\ SingleAmount.units > 1
    /\ (SingleAmount.fraction * SingleReference) % SingleAmount.units # 0
    /\ amounts = <<Floor(SingleAmount.fraction * SingleReference, SingleAmount.units)>>
    /\ amounts[1] > 0
    /\ pc = "built"

(***************************************************************************)
(* C4.  Fixed-amount resolution: Amount{amount} resolves to amount         *)
(* unchanged against every reference balance and never fails at the        *)
(* resolution step, also when amount is 0 or exceeds the reference.        *)
(***************************************************************************)
C4_AmountResolution ==
    /\ (IsSingle /\ Resolved /\ SingleAmount.tag = "Amount") =>
            /\ amounts = <<SingleAmount.amount>>
            /\ ~FailedWith("InvalidFractionalAmount")
    /\ (IsDisperse /\ Resolved
            /\ \A k \in DOMAIN req.recipients : req.recipients[k].tag = "Amount") =>
            /\ ~FailedWith("InvalidFractionalAmount")
            /\ Len(amounts) = Len(addresses)
            /\ Len(amounts) = Cardinality(DOMAIN req.recipients)
            /\ \A i \in 1..Len(amounts) :
                  amounts[i] = req.recipients[addresses[i]].amount
    /\ (IsCollect /\ Resolved
            /\ \A k \in DOMAIN req.spenders : req.spenders[k].tag = "Amount") =>
            /\ ~FailedWith("InvalidFractionalAmount")
            /\ \A i \in 1..Len(amounts) :
                  amounts[i] = req.spenders[addresses[i]].amount

\* an approve of more than the balance, and of zero, goes through resolution
C4_Witness ==
    /\ Op(req) = "approve" /\ Resolved
    /\ SingleAmount.tag = "Amount"
    /\ SingleAmount.amount > SingleReference
    /\ SingleReference = 0
    /\ amounts = <<SingleAmount.amount>>
    /\ pc = "built"

(***************************************************************************)
(* C5.  A Fraction with units = 0 fails with InvalidFractionalAmount for   *)
(* every fraction and reference balance in every operation that resolves   *)
(* it, as an error value, and nothing is simulated or sent.                *)
(***************************************************************************)
ZeroUnits(foa) == foa.tag = "Fraction" /\ foa.units = 0

\* The request holds a zero-units Fraction that its handler reaches.
C5_Case ==
    /\ Resolved
    /\ \/ IsSingle /\ ZeroUnits(SingleAmount)
       \/ IsDisperse /\ \E k \in DOMAIN req.recipients : ZeroUnits(req.recipients[k])
       \/ IsCollect /\ \E k \in DOMAIN req.spenders :
                          FirstNotPassing(k) /\ ZeroUnits(req.spenders[k])

C5_ZeroUnitsFails ==
    C5_Case =>
        /\ FailedWith("InvalidFractionalAmount")
        /\ response = Some(handle(result[1]))
        /\ NothingSubmitted
        /\ IsSingle => Failed(InvalidFractionalAmount(SingleAmount))
        /\ IsCollect => \E k \in DOMAIN req.spenders :
                           /\ FirstNotPassing(k) /\ ZeroUnits(req.spenders[k])
                           /\ Failed(InvalidFractionalAmount(req.spenders[k]))

\* approve with Fraction{1, 0}
C5_Witness ==
    /\ Op(req) = "approve" /\ Resolved
    /\ req.amount = Fraction(1, 0)
    /\ SingleReference > 0
    /\ Failed(InvalidFractionalAmount(Fraction(1, 0)))

(***************************************************************************)
(* C6.  No Amount arithmetic wraps modulo 2^Bits unnoticed: the product    *)
(* of fraction resolution, the running sum of aggregate validation and     *)
(* the value attached by disperse-eth are exact whenever the request has   *)
(* not ended with an error.                                                *)
(***************************************************************************)
C6_NoSilentWrap ==
    /\ (IsSingle /\ Resolved /\ SingleAmount.tag = "Fraction" /\ amounts # <<>>) =>
            /\ SingleAmount.units > 0
            /\ amounts[1] = Floor(SingleAmount.fraction * SingleReference,
                                  SingleAmount.units)
    /\ (IsDisperse /\ pc = "built") =>
            /\ sum = ExactSum(amounts)
            /\ Op(req) = "disperse_eth" => tx.value = ExactSum(amounts)

(***************************************************************************)
(* C7.  Batch determinism: once a disperse or collect request has passed   *)
(* validation, the address and amount sequences handed to the contract     *)
(* call have the same length, list every key of the request map exactly    *)
(* once in strictly ascending order, pair position i's amount with         *)
(* position i's address, are a function of the map and the snapshot, and   *)
(* the transfers of the response are the zip of the two sequences.         *)
(***************************************************************************)
Entries == IF IsCollect THEN req.spenders ELSE req.recipients
ReferenceOf(k) == IF IsCollect THEN tokBal[k] ELSE Available

C7_Case == (IsDisperse \/ IsCollect) /\ Resolved /\ tx # NoTx

C7_BatchDeterminism ==
    C7_Case =>
        /\ Len(addresses) = Len(amounts)
        /\ tx.addresses = addresses /\ tx.amounts = amounts
        /\ \A i, j \in 1..Len(addresses) : i < j => addresses[i] < addresses[j]
        /\ {addresses[i] : i \in 1..Len(addresses)} = DOMAIN Entries
        /\ \A i \in 1..Len(addresses) :
              amounts[i] = ExactAmount(Entries[addresses[i]], ReferenceOf(addresses[i]))
        /\ (result # None /\ result[1].ok) =>
              result[1].val.transfers =
                 [k \in DOMAIN Entries |-> ExactAmount(Entries[k], ReferenceOf(k))]

\* {A: Fraction, B: Amount} dispersed with success
C7_Witness ==
    /\ C7_Case
    /\ Op(req) = "disperse_eth"
    /\ result # None /\ result[1].ok
    /\ Len(addresses) = 2
    /\ req.recipients[addresses[1]].tag = "Fraction"
    /\ req.recipients[addresses[2]].tag = "Amount"
    /\ amounts[1] > 0 /\ amounts[2] > 0

(***************************************************************************)
(* C8.  Signer check.  As claimed: when no key is configured for the       *)
(* signing address, the request fails with SignerNotFound and no call      *)
(* to the chain client is ever issued for it.                              *)
(***************************************************************************)
NoSigner == signerAddr # req.caller

C8_SignerCheckedBeforeAnyCall ==
    NoSigner =>
        /\ calls = <<>>
        /\ pc = "done" => Failed(SignerNotFound(req.caller))

(***************************************************************************)
(* C8, amended.  When no key is configured for the signing address, no     *)
(* access-list simulation and no send is ever issued, the request never    *)
(* succeeds, and a request whose reads succeeded and whose amounts         *)
(* resolved and validated fails with SignerNotFound(caller); the balance   *)
(* and allowance reads are issued before the check.                        *)
(***************************************************************************)
C8_SignerCheckedBeforeSubmission ==
    NoSigner =>
        /\ \A i \in 1..Len(calls) : calls[i] \notin SubmitCalls
        /\ pc \notin {"simulate", "send", "receipt"}
        /\ result # None => ~result[1].ok
        /\ (pc = "done" /\ Resolved /\ tx # NoTx) =>
              /\ Failed(SignerNotFound(req.caller))
              /\ tx.from = None /\ ~tx.access_list

C8_Witness ==
    /\ NoSigner
    /\ Op(req) = "disperse_erc20"
    /\ Failed(SignerNotFound(req.caller))
    /\ calls = <<allowance(req.spender), balanceOf(req.spender)>>
    /\ tx # NoTx

(***************************************************************************)
(* C9.  Error-to-status mapping: InsufficientFunds,                        *)
(* InvalidFractionalAmount, TokenNotFound and SignerNotFound give HTTP 400 *)
(* with the error's message; Transport and Unexpected give HTTP 500 with   *)
(* the fixed message "internal server error".                              *)
(***************************************************************************)
C9_ErrorStatusMapping ==
    (pc = "done" /\ ~result[1].ok) =>
        LET e == result[1].err
            r == response[1]
        IN  /\ e.tag \in {"InsufficientFunds", "InvalidFractionalAmount",
                          "TokenNotFound", "SignerNotFound"} =>
                  r.status = 400 /\ r.error = to_string(e)
            /\ e.tag \in {"Transport", "Unexpected"} =>
                  r.status = 500 /\ r.error = "internal server error"

(***************************************************************************)
(* C10.  Fan-out/fan-in of the reads of disperse-erc20 and collect-erc20:  *)
(* under every interleaving, nothing is resolved, built, simulated or      *)
(* sent before every read of the fan-out has succeeded, and a failed read  *)
(* fails the request with that read's classified error, no partial result  *)
(* being used.                                                             *)
(***************************************************************************)
IsFanOut == Op(req) \in {"disperse_erc20", "collect_erc20"}

FanOutReads ==
    IF IsCollect
    THEN {allowance(k) : k \in DOMAIN req.spenders}
            \cup {balanceOf(k) : k \in DOMAIN req.spenders}
    ELSE {allowance(req.spender), balanceOf(req.spender)}

AllReadsBack ==
    \A rd \in FanOutReads : rd \in DOMAIN reads /\ reads[rd] = "ok"

PastTheReads ==
    \/ amounts # <<>> \/ addresses # <<>> \/ tx # NoTx
    \/ \E i \in 1..Len(calls) : calls[i] \in SubmitCalls
    \/ pc \in {"built", "simulate", "send", "receipt"}
    \/ result # None /\ result[1].ok
    \/ FailedWith("InsufficientFunds") \/ FailedWith("InvalidFractionalAmount")
    \/ FailedWith("SignerNotFound")

ClassifiedReadError(e) ==
    CASE e \in {"UnknownFunction", "UnknownSelector"} -> TokenNotFound(req.token)
      [] e = "TransportError.Transport" -> Transport("Transport")
      [] e = "TransportError.ErrorResp" -> Unexpected("ErrorResp")
      [] e = "AbiError" -> Unexpected("AbiError")

C10_FanIn ==
    IsFanOut =>
        /\ PastTheReads => AllReadsBack
        /\ \A rd \in DOMAIN reads :
              reads[rd] \in ContractErrors =>
                 /\ Failed(ClassifiedReadError(reads[rd]))
                 /\ amounts = <<>> /\ addresses = <<>>
                 /\ NothingSubmitted

\* the last read of a two-spender collect fails
C10_Witness ==
    /\ IsCollect
    /\ Cardinality(DOMAIN reads) = 4
    /\ \E k \in DOMAIN req.spenders :
          /\ \E j \in DOMAIN req.spenders : j < k
          /\ reads[balanceOf(k)] = "UnknownSelector"
    /\ Failed(TokenNotFound(req.token))
    /\ NothingSubmitted

(***************************************************************************)
(* C11.  No retry, all or nothing: a request runs the pipeline             *)
(* fetch -> resolve and validate -> assemble -> submit -> respond once,    *)
(* in that order; every read, the access-list simulation, the send and     *)
(* the receipt are each issued at most once, nothing is issued after a     *)
(* failure, a finished request never changes again, and a transaction      *)
(* hash is returned only from the state in which the one send has          *)
(* succeeded and its receipt is awaited.                                   *)
(***************************************************************************)
Count(c) == Cardinality({i \in 1..Len(calls) : calls[i] = c})

SubmitSequence == <<create_access_list, send_transaction, get_receipt>>

\* how far along the pipeline a position is
Stage(p) ==
    CASE p = "start" -> 0
      [] p = "fetch" -> 1
      [] p = "built" -> 2
      [] p = "simulate" -> 3
      [] p = "send" -> 4
      [] p = "receipt" -> 5
      [] p = "done" -> 6

Succeeded == result # None /\ result[1].ok

C11_CallsOnce ==
    /\ \A i \in 1..Len(calls) : Count(calls[i]) = 1
    /\ pc = "start" => calls = <<>>
    /\ pc # "start" =>
          \E n \in 0..3 : calls = ReadsOf(req) \o SubSeq(SubmitSequence, 1, n)
    /\ (result # None) <=> (pc = "done")
    /\ Succeeded =>
          /\ calls = ReadsOf(req) \o SubmitSequence
          /\ \A rd \in DOMAIN reads : reads[rd] = "ok"
          /\ tx # NoTx /\ tx.from = Some(req.caller) /\ tx.access_list
          /\ result[1].val.tx_hash = "receipt.transaction_hash"

C11_Forward ==
    /\ Stage(pc') > Stage(pc)
          \/ (pc' = pc /\ pc = "fetch" /\ calls' = calls /\ result' = result)
    /\ pc = "done" => UNCHANGED vars
    /\ (result' # None /\ result'[1].ok) => pc = "receipt"
    /\ \/ calls' = calls
       \/ pc = "start" /\ calls' = ReadsOf(req)
       \/ \E c \in SubmitCalls : calls' = Append(calls, c)
    /\ (pc' = "done" /\ pc # "done" /\ ~result'[1].ok) => calls' = calls

C11_NoRetryAllOrNothing == [](C11_CallsOnce) /\ [][C11_Forward]_vars

\* a two-spender collect that went through: 4 reads, 1 simulation, 1 send
C11_Witness ==
    /\ IsCollect
    /\ Succeeded
    /\ Len(calls) = 7
    /\ Count(create_access_list) = 1 /\ Count(send_transaction) = 1

(***************************************************************************)
(* C12.  Safety of disperse: whenever disperse-eth or disperse-erc20       *)
(* reaches the submission of its transaction, the exact (unbounded) sum    *)
(* of the amounts of the batch is at most what the sender has available    *)
(* in the fetched snapshot.                                                *)
(***************************************************************************)
ReachedSubmission ==
    /\ tx # NoTx
    /\ \E i \in 1..Len(calls) : calls[i] \in SubmitCalls

C12_DisperseWithinAvailable ==
    (IsDisperse /\ ReachedSubmission) => ExactSum(tx.amounts) <= Available

====
